---- MODULE Spec2Model ----
(***************************************************************************)
(* FleetCast backend (backend/server.py): the APScheduler job scheduler    *)
(* with its three interval jobs, the /api/simulate handler, and the two    *)
(* query handlers get_dashboard_summary and get_station_data over the      *)
(* telemetry and contact_windows tables.                                   *)
(*                                                                         *)
(* Three specifications share the variables:                               *)
(*   SpecSched  the scheduler, its jobs and /api/simulate, over a clock;   *)
(*   SpecQuery  the two query handlers applied to stores drawn from        *)
(*              bounded sets of tables (the store answers every call);     *)
(*   SpecConn   the two handlers statement by statement, with a store      *)
(*              that may fail at the connect and at every execute.         *)
(***************************************************************************)
EXTENDS Integers, Sequences, FiniteSets, TLC

VARIABLES
    \* ---- scheduler (server.py:61-96)
    now,            \* wall clock, seconds since start_jobs
    state,          \* scheduler.state: "stopped" | "running" | "shutdown"
    next_run_time,  \* job -> next fire time of its IntervalTrigger
    instances,      \* job -> executions of the job now in the executor
    started,        \* job -> executions the scheduler has started so far
    skipped,        \* job -> ticks dropped ("max instances reached")
    outcome,        \* job -> how its last execution ended: none | ok | error
    requests,       \* GET /api/simulate calls now inside simulate_and_log
    overlapped,     \* a scheduled simulation started during such a call
    \* ---- store (tables read by the handlers)
    telemetry,      \* sequence of telemetry rows
    contact_windows,\* sequence of contact_windows rows
    utc,            \* UTC_TIMESTAMP() of the store
    \* ---- handler calls
    call,           \* thread -> the call it is in (handler, argument, locals)
    open            \* connections the store holds open

vars == <<now, state, next_run_time, instances, started, skipped, outcome,
          requests, overlapped, telemetry, contact_windows, utc, call, open>>

schedVars == <<now, state, next_run_time, instances, started, skipped, outcome,
               requests, overlapped>>
storeVars == <<telemetry, contact_windows, utc>>
callVars == <<call, open>>

(***************************************************************************)
(* Bounds of the model                                                     *)
(***************************************************************************)
MaxSteps == 8       \* clock steps the model follows
MaxRequests == 1    \* GET /api/simulate calls in progress at once

(***************************************************************************)
(* Scheduler: start_jobs, stop_jobs, the three jobs, run_simulation        *)
(***************************************************************************)
Jobs == {"scheduled_simulation", "scheduled_dashboard_job", "scheduled_station_job"}

SimulationSeconds == 10
DashboardSeconds == 15
StationSeconds == 20

\* IntervalTrigger(seconds=...) of each add_job
Interval(j) ==
    CASE j = "scheduled_simulation" -> SimulationSeconds
      [] j = "scheduled_dashboard_job" -> DashboardSeconds
      [] j = "scheduled_station_job" -> StationSeconds

MaxInstancesTwo == 1 + 1
\* max_instances=1 of each add_job
MaxInstances == 1

\* The clock advances in steps that meet every fire time of the three triggers.
Divides(d, n) == n % d = 0
TimeStep ==
    CHOOSE d \in 1..SimulationSeconds :
        /\ \A j \in Jobs : Divides(d, Interval(j))
        /\ \A e \in 1..SimulationSeconds :
              (\A j \in Jobs : Divides(e, Interval(j))) => e <= d

\* After the module is loaded: scheduler = BackgroundScheduler(), no job added,
\* no request in progress; the handlers are not called in this specification.
InitSched ==
    /\ telemetry = <<>>
    /\ contact_windows = <<>>
    /\ utc = 0
    /\ call = <<>>
    /\ open = 0
    /\ now = 0
    /\ state = "stopped"
    /\ next_run_time = [j \in Jobs |-> 0]
    /\ instances = [j \in Jobs |-> 0]
    /\ started = [j \in Jobs |-> 0]
    /\ skipped = [j \in Jobs |-> 0]
    /\ outcome = [j \in Jobs |-> "none"]
    /\ requests = 0
    /\ overlapped = FALSE

\* start_jobs: three add_job calls and scheduler.start(); an IntervalTrigger
\* without start_date first fires one interval after it is created.
start_jobs ==
    /\ state = "stopped"
    /\ state' = "running"
    /\ next_run_time' = [j \in Jobs |-> now + Interval(j)]
    /\ UNCHANGED <<now, instances, started, skipped, outcome, requests, overlapped>>

\* stop_jobs: scheduler.shutdown(wait=False); executions in progress go on.
stop_jobs ==
    /\ state = "running"
    /\ state' = "shutdown"
    /\ UNCHANGED <<now, next_run_time, instances, started, skipped, outcome,
                   requests, overlapped>>

\* The executor takes the job: one more instance, one more execution.
SubmitJob(j) ==
    /\ instances' = [instances EXCEPT ![j] = @ + 1]
    /\ started' = [started EXCEPT ![j] = @ + 1]
    /\ skipped' = skipped
    /\ overlapped' = (overlapped \/ (j = "scheduled_simulation" /\ requests > 0))

\* The executor refuses the job (its instances are at max_instances): the run
\* time is dropped and only reported.
SkipJob(j) ==
    /\ skipped' = [skipped EXCEPT ![j] = @ + 1]
    /\ UNCHANGED <<instances, started, overlapped>>

\* The scheduler thread's wake-up for a job whose run time is due.  The thread
\* sleeps until the earliest next_run_time, so one run time is due per wake-up
\* and coalesce=True has nothing to roll together; the job's next run time is
\* the following multiple of its interval whether the run time was taken or not.
Tick(j) ==
    /\ state = "running"
    /\ next_run_time[j] <= now
    /\ IF instances[j] < MaxInstances THEN SubmitJob(j) ELSE SkipJob(j)
    /\ next_run_time' = [next_run_time EXCEPT ![j] = @ + Interval(j)]
    /\ UNCHANGED <<now, state, outcome, requests>>

RunJobErrorHeld(j) ==
    /\ instances' = instances
    /\ outcome' = [outcome EXCEPT ![j] = "error"]
\* The job function raised: the executor catches the exception at the job
\* boundary, logs it and releases the instance.
RunJobError(j) ==
    /\ instances' = [instances EXCEPT ![j] = @ - 1]
    /\ outcome' = [outcome EXCEPT ![j] = "error"]

\* The job function returned.
RunJobSuccess(j) ==
    /\ instances' = [instances EXCEPT ![j] = @ - 1]
    /\ outcome' = [outcome EXCEPT ![j] = "ok"]

\* scheduled_simulation / scheduled_dashboard_job / scheduled_station_job end:
\* the body (simulate_and_log, get_dashboard_summary, get_station_data for the
\* three stations) either returns or raises; nothing in the job catches.
JobReturns(j) ==
    /\ instances[j] > 0
    /\ RunJobSuccess(j)
    /\ UNCHANGED <<now, state, next_run_time, started, skipped, requests, overlapped>>

JobRaises(j) ==
    /\ instances[j] > 0
    /\ RunJobError(j)
    /\ UNCHANGED <<now, state, next_run_time, started, skipped, requests, overlapped>>

RunSimulationAsJob ==
    /\ instances["scheduled_simulation"] < MaxInstances
    /\ requests' = requests + 1
    /\ instances' = [instances EXCEPT !["scheduled_simulation"] = @ + 1]
\* run_simulation enters simulate_and_log directly, not through the scheduler.
RunSimulationEnter ==
    /\ requests' = requests + 1
    /\ instances' = instances

\* GET /api/simulate arrives.
run_simulation ==
    /\ state # "stopped"
    /\ requests < MaxRequests
    /\ RunSimulationEnter
    /\ overlapped' = IF requests = 0 THEN FALSE ELSE overlapped
    /\ UNCHANGED <<now, state, next_run_time, started, skipped, outcome>>

\* simulate_and_log of a GET /api/simulate returns (200) or raises (500).
run_simulation_done ==
    /\ requests > 0
    /\ requests' = requests - 1
    /\ UNCHANGED <<now, state, next_run_time, instances, started, skipped,
                   outcome, overlapped>>

\* Time passes once the scheduler has served every due run time.
Advance ==
    /\ state # "stopped"
    /\ state = "running" => \A j \in Jobs : next_run_time[j] > now
    /\ now + TimeStep <= MaxSteps * TimeStep
    /\ now' = now + TimeStep
    /\ UNCHANGED <<state, next_run_time, instances, started, skipped, outcome,
                   requests, overlapped>>

NoQuery == UNCHANGED <<storeVars, callVars>>

NextSched ==
    \/ start_jobs /\ NoQuery
    \/ stop_jobs /\ NoQuery
    \/ \E j \in Jobs : Tick(j) /\ NoQuery
    \/ \E j \in Jobs : JobReturns(j) /\ NoQuery
    \/ \E j \in Jobs : JobRaises(j) /\ NoQuery
    \/ run_simulation /\ NoQuery
    \/ run_simulation_done /\ NoQuery
    \/ Advance /\ NoQuery

SpecSched == InitSched /\ [][NextSched]_vars

(***************************************************************************)
(* Store: the telemetry and contact_windows tables                         *)
(*                                                                         *)
(* A table is a bag of rows; it is written as a sequence whose order no    *)
(* query below reads (COUNT, GROUP BY, DISTINCT and the joins go over the  *)
(* row positions), so a table is drawn once, in the order of RowKey.       *)
(* Columns hold values (no NULL); start_time of contact_windows, which no  *)
(* query reads, is left out.                                               *)
(***************************************************************************)
MaxTelemetry == 2          \* telemetry rows, dashboard stores
MaxContacts == 2           \* contact_windows rows, dashboard stores
MaxStationTelemetry == 2   \* telemetry rows, station stores
MaxStationContacts == 1    \* contact_windows rows, station stores
MaxConnections == 2        \* connections the store accepts at once
QueryTime == 100           \* UTC_TIMESTAMP() of the store when the queries run

Satellites == {1, 2}
Stations == {"GS-1", "GS-2"}

TelemetryRows ==
    [satellite_id : Satellites, ground_station_id : Stations,
     battery_level : {20, 30}, temperature : {25},
     status : {"NOMINAL", "ERROR"}, timestamp : {10, 20}]

ContactRows ==
    [satellite_id : Satellites, ground_station_id : Stations,
     assigned : BOOLEAN, end_time : {QueryTime - 60, QueryTime, QueryTime + 60}]

StationTelemetryRows == {r \in TelemetryRows : r.status = "NOMINAL"}

StationContactRows ==
    {r \in ContactRows : r.end_time >= QueryTime /\ (r.assigned \/ r.end_time > QueryTime)}

StationIndex(g) == IF g = "GS-1" THEN 1 ELSE 2

TelemetryKey(r) ==
    (((r.satellite_id * 100 + r.timestamp) * 100 + r.battery_level) * 2
        + (IF r.status = "ERROR" THEN 1 ELSE 0)) * 4 + StationIndex(r.ground_station_id)

ContactKey(r) ==
    ((r.satellite_id * 1000 + r.end_time) * 2 + (IF r.assigned THEN 1 ELSE 0)) * 4
        + StationIndex(r.ground_station_id)

TelemetryTables(rows, n) ==
    UNION {{t \in [1..k -> rows] :
                \A i \in 1..(k - 1) : TelemetryKey(t[i]) <= TelemetryKey(t[i + 1])}
           : k \in 0..n}

ContactTables(rows, n) ==
    UNION {{t \in [1..k -> rows] :
                \A i \in 1..(k - 1) : ContactKey(t[i]) <= ContactKey(t[i + 1])}
           : k \in 0..n}

Telemetry(sat, gs, battery, st, ts) ==
    [satellite_id |-> sat, ground_station_id |-> gs, battery_level |-> battery,
     temperature |-> 25, status |-> st, timestamp |-> ts]

Contact(sat, gs, asg, end) ==
    [satellite_id |-> sat, ground_station_id |-> gs, assigned |-> asg, end_time |-> end]

\* One satellite with an old low reading and a recovered latest one, one with
\* a low latest reading; one assigned and one unassigned open window.
SampleTelemetry ==
    <<Telemetry(1, "GS-1", 20, "ERROR", 10), Telemetry(1, "GS-1", 80, "NOMINAL", 20),
      Telemetry(2, "GS-1", 10, "NOMINAL", 15)>>

SampleContacts ==
    <<Contact(1, "GS-1", TRUE, QueryTime + 60), Contact(2, "GS-1", FALSE, QueryTime + 60)>>

(***************************************************************************)
(* The queries of get_dashboard_summary (server.py:115-159)                *)
(***************************************************************************)
Max(S) == CHOOSE x \in S : \A y \in S : y <= x
Min(S) == CHOOSE x \in S : \A y \in S : x <= y

TotalSatellites == 100
LowBatteryLevel == 30

\* SELECT COUNT(*) FROM telemetry
CountTelemetry(t) == Len(t)

\* SELECT satellite_id, MAX(timestamp) AS latest_time FROM telemetry
\* GROUP BY satellite_id
LatestPerSatellite(t) ==
    {[satellite_id |-> s,
      latest_time |-> Max({t[i].timestamp : i \in {k \in DOMAIN t : t[k].satellite_id = s}})]
     : s \in {t[i].satellite_id : i \in DOMAIN t}}

\* telemetry t INNER JOIN (...) latest ON t.satellite_id = latest.satellite_id
\*                                    AND t.timestamp = latest.latest_time
JoinLatest(t) ==
    {p \in (DOMAIN t) \X LatestPerSatellite(t) :
        /\ t[p[1]].satellite_id = p[2].satellite_id
        /\ t[p[1]].timestamp = p[2].latest_time}

\* SELECT COUNT(*) FROM ... WHERE t.battery_level < 30
LowBatteryLatest(t) ==
    Cardinality({p \in JoinLatest(t) : t[p[1]].battery_level < LowBatteryLevel})

\* SELECT COUNT(*) FROM ... WHERE t.status = 'ERROR'
ErrorLatest(t) ==
    Cardinality({p \in JoinLatest(t) : t[p[1]].status = "ERROR"})

ActiveContactRowsInclusive(cw, ts) ==
    {i \in DOMAIN cw : cw[i].assigned = TRUE /\ cw[i].end_time >= ts}
\* FROM contact_windows WHERE assigned = TRUE AND end_time > UTC_TIMESTAMP()
ActiveContactRows(cw, ts) ==
    {i \in DOMAIN cw : cw[i].assigned = TRUE /\ cw[i].end_time > ts}

\* SELECT COUNT(DISTINCT satellite_id) FROM contact_windows WHERE ...
ActiveContactsNow(cw, ts) ==
    Cardinality({cw[i].satellite_id : i \in ActiveContactRows(cw, ts)})

\* The dictionary get_dashboard_summary returns, from its four locals.
DashboardResponse(l) ==
    [totalSatellites |-> TotalSatellites,
     activeContacts |-> l.active_contacts,
     lowBattery |-> l.low_battery,
     errorState |-> l.errors,
     totalTelemetry |-> l.total_telemetry]

(***************************************************************************)
(* The query of get_station_data (server.py:196-233)                       *)
(***************************************************************************)
\* contact_windows cw JOIN telemetry t ON cw.satellite_id = t.satellite_id
\*   AND cw.ground_station_id = t.ground_station_id
\* WHERE cw.assigned = TRUE AND cw.end_time > UTC_TIMESTAMP()
\*   AND cw.ground_station_id = %s
StationJoin(cw, t, ts, station_id) ==
    {p \in (DOMAIN cw) \X (DOMAIN t) :
        /\ cw[p[1]].satellite_id = t[p[2]].satellite_id
        /\ cw[p[1]].ground_station_id = t[p[2]].ground_station_id
        /\ p[1] \in ActiveContactRows(cw, ts)
        /\ cw[p[1]].ground_station_id = station_id}

FirstAscending(t, part) ==
    {p \in part : t[p[2]].timestamp = Min({t[q[2]].timestamp : q \in part})}
\* ROW_NUMBER() OVER (PARTITION BY cw.satellite_id ORDER BY t.timestamp DESC)
\* ... WHERE sub.rn = 1: the joined rows of one partition that may be numbered
\* 1, which is any row of the partition's greatest timestamp.
FirstDescending(t, part) ==
    {p \in part : t[p[2]].timestamp = Max({t[q[2]].timestamp : q \in part})}

\* The dictionary built from one result row (row[1] .. row[5]).
StationEntry(cw, t, p) ==
    [satellite_id |-> cw[p[1]].satellite_id,
     battery_level |-> t[p[2]].battery_level,
     temperature |-> t[p[2]].temperature,
     status |-> t[p[2]].status,
     timestamp |-> t[p[2]].timestamp]

\* Every list cursor.fetchall() may hold, as station_data: one row of number 1
\* for each partition, in any order.
StationLatest(cw, t, ts, station_id) ==
    LET joined == StationJoin(cw, t, ts, station_id)
        sats == {cw[p[1]].satellite_id : p \in joined}
        part(s) == {p \in joined : cw[p[1]].satellite_id = s}
        picks == {f \in [sats -> joined] : \A s \in sats : f[s] \in FirstDescending(t, part(s))}
        orders == {o \in [1..Cardinality(sats) -> sats] :
                      \A i, j \in DOMAIN o : i # j => o[i] # o[j]}
    IN  {[k \in DOMAIN o |-> StationEntry(cw, t, f[o[k]])] : f \in picks, o \in orders}

StationResponseNotFound(station_id, station_data) ==
    IF station_data = <<>>
    THEN [detail |-> "Not Found"]
    ELSE [station_id |-> station_id, satellites |-> station_data]
\* The dictionary get_station_data returns.
StationResponse(station_id, station_data) ==
    [station_id |-> station_id, satellites |-> station_data]

(***************************************************************************)
(* Calls of get_dashboard_summary and get_station_data                     *)
(***************************************************************************)
Threads == {"request", "job"}
StationIds == {"GS-1", "GS-2", "GS-3", "does-not-exist"}

NoResponse == [none |-> TRUE]
NoLocals == [x \in {} |-> 0]

IdleCall ==
    [handler |-> "none", station_id |-> "", pc |-> "idle", conn |-> "none",
     faulted |-> FALSE, locals |-> NoLocals, response |-> NoResponse]

\* The handler is entered: no connection, no local bound, nothing returned.
EnterCall(handler, station_id) ==
    [handler |-> handler, station_id |-> station_id, pc |-> "connect", conn |-> "none",
     faulted |-> FALSE, locals |-> NoLocals, response |-> NoResponse]

\* The statement after the one at pc, when that one does not raise.
NextPc(pc) ==
    CASE pc = "count" -> "low_battery"
      [] pc = "low_battery" -> "errors"
      [] pc = "errors" -> "active_contacts"
      [] pc = "active_contacts" -> "return"
      [] pc = "station_latest" -> "close"
      [] pc = "close" -> "return"
      [] pc = "return" -> "returned"

\* The local each execute/fetch binds.
LocalOf(pc) ==
    CASE pc = "count" -> "total_telemetry"
      [] pc = "low_battery" -> "low_battery"
      [] pc = "errors" -> "errors"
      [] pc = "active_contacts" -> "active_contacts"
      [] pc = "station_latest" -> "station_data"

\* What the store may answer to the query at pc.
QueryResults(pc, station_id) ==
    CASE pc = "count" -> {CountTelemetry(telemetry)}
      [] pc = "low_battery" -> {LowBatteryLatest(telemetry)}
      [] pc = "errors" -> {ErrorLatest(telemetry)}
      [] pc = "active_contacts" -> {ActiveContactsNow(contact_windows, utc)}
      [] pc = "station_latest" -> StationLatest(contact_windows, telemetry, utc, station_id)

\* pymysql.connect(...) returned a connection; conn.cursor().
Connected(c) ==
    [c EXCEPT !.conn = "open",
              !.pc = IF c.handler = "dashboard" THEN "count" ELSE "station_latest"]

\* pymysql.connect(...) raised: nothing was acquired, the exception leaves
\* the handler.
ConnectFailed(c) == [c EXCEPT !.pc = "raised", !.faulted = TRUE]

\* cursor.execute(...) and the fetch bound the local to v.  The fourth query
\* of get_dashboard_summary is followed at once by cursor.close(); conn.close().
Executed(c, v) ==
    [c EXCEPT !.locals = (LocalOf(c.pc) :> v) @@ @,
              !.conn = IF c.pc = "active_contacts" THEN "closed" ELSE @,
              !.pc = NextPc(c.pc)]

ExecuteFailedZeroFilled(c) ==
    [c EXCEPT !.locals = (LocalOf(c.pc) :> (IF c.pc = "station_latest" THEN <<>> ELSE 0)) @@ @,
              !.conn = IF c.pc = "active_contacts" THEN "closed" ELSE @,
              !.faulted = TRUE,
              !.pc = NextPc(c.pc)]
\* cursor.execute(...) raised: no try/finally and no except in the handler, so
\* the exception leaves it at once; the statements after it, conn.close()
\* among them, are not run.
ExecuteFailed(c) == [c EXCEPT !.pc = "raised", !.faulted = TRUE]

\* cursor.close(); conn.close() of get_station_data.
Closed(c) == [c EXCEPT !.conn = "closed", !.pc = NextPc(c.pc)]

\* The return statement.
Returned(c) ==
    [c EXCEPT !.response = IF c.handler = "dashboard"
                           THEN DashboardResponse(c.locals)
                           ELSE StationResponse(c.station_id, c.locals.station_data),
              !.pc = NextPc(c.pc)]

Finished(c) == c.pc \in {"returned", "raised"}

NoSched == UNCHANGED <<schedVars, storeVars>>

\* ---- statement by statement, the store failing where it may (SpecConn)

\* A thread enters a handler: a request of the server's thread pool, or a job
\* (scheduled_dashboard_job, scheduled_station_job for each of its stations).
call_get_dashboard_summary(th) ==
    /\ call[th].pc = "idle" \/ Finished(call[th])
    /\ call' = [call EXCEPT ![th] = EnterCall("dashboard", "")]
    /\ UNCHANGED open

call_get_station_data(th, station_id) ==
    /\ call[th].pc = "idle" \/ Finished(call[th])
    /\ call' = [call EXCEPT ![th] = EnterCall("station", station_id)]
    /\ UNCHANGED open

Connect(th) ==
    /\ call[th].pc = "connect"
    /\ open < MaxConnections
    /\ call' = [call EXCEPT ![th] = Connected(@)]
    /\ open' = open + 1

ConnectRaises(th) ==
    /\ call[th].pc = "connect"
    /\ call' = [call EXCEPT ![th] = ConnectFailed(@)]
    /\ UNCHANGED open

Execute(th) ==
    /\ call[th].pc \in {"count", "low_battery", "errors", "active_contacts", "station_latest"}
    /\ \E v \in QueryResults(call[th].pc, call[th].station_id) :
          call' = [call EXCEPT ![th] = Executed(@, v)]
    /\ open' = IF call[th].pc = "active_contacts" THEN open - 1 ELSE open

ExecuteRaises(th) ==
    /\ call[th].pc \in {"count", "low_battery", "errors", "active_contacts", "station_latest"}
    /\ call' = [call EXCEPT ![th] = ExecuteFailed(@)]
    /\ UNCHANGED open

Close(th) ==
    /\ call[th].pc = "close"
    /\ call' = [call EXCEPT ![th] = Closed(@)]
    /\ open' = open - 1

Return(th) ==
    /\ call[th].pc = "return"
    /\ call' = [call EXCEPT ![th] = Returned(@)]
    /\ UNCHANGED open

InitConn ==
    /\ now = 0
    /\ state = "stopped"
    /\ next_run_time = [j \in Jobs |-> 0]
    /\ instances = [j \in Jobs |-> 0]
    /\ started = [j \in Jobs |-> 0]
    /\ skipped = [j \in Jobs |-> 0]
    /\ outcome = [j \in Jobs |-> "none"]
    /\ requests = 0
    /\ overlapped = FALSE
    /\ utc = QueryTime
    /\ \/ telemetry = <<>> /\ contact_windows = <<>>
       \/ telemetry = SampleTelemetry /\ contact_windows = SampleContacts
    /\ call = [th \in Threads |-> IdleCall]
    /\ open = 0

NextConn ==
    \/ \E th \in Threads : call_get_dashboard_summary(th) /\ NoSched
    \/ \E th \in Threads : \E sid \in StationIds : call_get_station_data(th, sid) /\ NoSched
    \/ \E th \in Threads : Connect(th) /\ NoSched
    \/ \E th \in Threads : ConnectRaises(th) /\ NoSched
    \/ \E th \in Threads : Execute(th) /\ NoSched
    \/ \E th \in Threads : ExecuteRaises(th) /\ NoSched
    \/ \E th \in Threads : Close(th) /\ NoSched
    \/ \E th \in Threads : Return(th) /\ NoSched

SpecConn == InitConn /\ [][NextConn]_vars

\* ---- whole calls against a store that answers (SpecQuery)

\* get_dashboard_summary from entry to return, every statement succeeding.
get_dashboard_summary ==
    LET c1 == Connected(EnterCall("dashboard", ""))
        c2 == Executed(c1, CountTelemetry(telemetry))
        c3 == Executed(c2, LowBatteryLatest(telemetry))
        c4 == Executed(c3, ErrorLatest(telemetry))
        c5 == Executed(c4, ActiveContactsNow(contact_windows, utc))
    IN  /\ call' = [call EXCEPT !["request"] = Returned(c5)]
        /\ UNCHANGED open

\* get_station_data(station_id) from entry to return, every statement
\* succeeding.
get_station_data(station_id) ==
    LET c1 == Connected(EnterCall("station", station_id))
    IN  \E d \in StationLatest(contact_windows, telemetry, utc, station_id) :
            /\ call' = [call EXCEPT !["request"] = Returned(Closed(Executed(c1, d)))]
            /\ UNCHANGED open

InitQuery ==
    /\ now = 0
    /\ state = "stopped"
    /\ next_run_time = [j \in Jobs |-> 0]
    /\ instances = [j \in Jobs |-> 0]
    /\ started = [j \in Jobs |-> 0]
    /\ skipped = [j \in Jobs |-> 0]
    /\ outcome = [j \in Jobs |-> "none"]
    /\ requests = 0
    /\ overlapped = FALSE
    /\ utc = QueryTime
    /\ \/ /\ telemetry \in TelemetryTables(TelemetryRows, MaxTelemetry)
          /\ contact_windows = SampleContacts
       \/ /\ telemetry = SampleTelemetry
          /\ contact_windows \in ContactTables(ContactRows, MaxContacts)
       \/ /\ telemetry \in TelemetryTables(StationTelemetryRows, MaxStationTelemetry)
          /\ contact_windows \in ContactTables(StationContactRows, MaxStationContacts)
    /\ call = [th \in Threads |-> IdleCall]
    /\ open = 0

NextQuery ==
    \/ get_dashboard_summary /\ NoSched
    \/ \E sid \in StationIds : get_station_data(sid) /\ NoSched

SpecQuery == InitQuery /\ [][NextQuery]_vars

(***************************************************************************)
(* Scheduler properties                                                    *)
(***************************************************************************)
\* The scheduler thread served a run time of job j in this step.
Ticked(j) == state = "running" /\ next_run_time'[j] # next_run_time[j]

\* C1: for each of the three jobs, at most one execution started by the
\* scheduler is in progress in every reachable state; a tick that arrives
\* while the job is RUNNING never starts a second one.
C1_AtMostOneExecution == \A j \in Jobs : instances[j] <= 1

\* The first execution of a job is still running and a tick of it was dropped.
C1_Witness ==
    \E j \in Jobs : instances[j] = 1 /\ started[j] = 1 /\ skipped[j] >= 1

\* C3: a tick that arrives while the job runs is dropped and not queued (it
\* starts nothing, then or later); an execution starts only in the wake-up of
\* a regular run time, one per run time; and the executions started by time t
\* number at most t / interval, strictly fewer once a tick was dropped.
C3_SlowRunSkipsTicks ==
    /\ [][\A j \in Jobs :
            (Ticked(j) /\ instances[j] > 0) =>
                /\ started'[j] = started[j]
                /\ instances'[j] = instances[j]
                /\ skipped'[j] = skipped[j] + 1]_vars
    /\ [][\A j \in Jobs :
            started'[j] # started[j] =>
                /\ Ticked(j)
                /\ next_run_time[j] = now
                /\ next_run_time'[j] = now + Interval(j)
                /\ started'[j] = started[j] + 1]_vars
    /\ [](\A j \in Jobs :
            /\ started[j] * Interval(j) <= now
            /\ skipped[j] > 0 => started[j] * Interval(j) < now)

\* A job ran past its next run time, the tick was dropped, the run ended, and
\* the job was started again at a later regular run time.
C3_Witness ==
    \E j \in Jobs :
        /\ skipped[j] = 1
        /\ started[j] = 2
        /\ instances[j] = 1
        /\ now = 3 * Interval(j)

\* C4: when the body of a job raises, the job's instance is released (the job
\* is IDLE again), the scheduler's state and every job's next run time stay
\* as they are and the other jobs are untouched; an idle job is started at
\* every run time of its own, whatever any job's last outcome was; and while
\* the scheduler runs every job has a run time within one interval from now.
C4_FailureIsolated ==
    /\ [][\A j \in Jobs :
            (outcome'[j] = "error" /\ outcome[j] # "error") =>
                /\ instances[j] = 1
                /\ instances'[j] = 0
                /\ state' = state
                /\ next_run_time' = next_run_time
                /\ \A k \in Jobs \ {j} :
                      instances'[k] = instances[k] /\ outcome'[k] = outcome[k]]_vars
    /\ [][\A j \in Jobs :
            (Ticked(j) /\ instances[j] = 0) =>
                /\ started'[j] = started[j] + 1
                /\ instances'[j] = 1]_vars
    /\ [](state = "running" =>
            \A j \in Jobs :
                now <= next_run_time[j] /\ next_run_time[j] <= now + Interval(j))

\* A job whose last execution raised is running again while another job, whose
\* last execution returned, runs too.
C4_Witness ==
    \E j \in Jobs : \E k \in Jobs \ {j} :
        /\ outcome[j] = "error"
        /\ instances[j] = 1
        /\ started[j] >= 2
        /\ outcome[k] = "ok"
        /\ instances[k] = 1
        /\ state = "running"

\* C10: a GET /api/simulate call, entering or leaving, changes nothing of the
\* scheduler (state, run times, instances, counts, outcomes); a run time of
\* scheduled_simulation served while such a call is in progress, with the job
\* idle, starts the job and is not skipped.
C10_SimulateOutsideScheduler ==
    /\ [][requests' # requests =>
            UNCHANGED <<state, next_run_time, instances, started, skipped, outcome>>]_vars
    /\ [][(Ticked("scheduled_simulation") /\ requests > 0
              /\ instances["scheduled_simulation"] = 0) =>
                /\ instances'["scheduled_simulation"] = 1
                /\ started'["scheduled_simulation"] = started["scheduled_simulation"] + 1
                /\ skipped' = skipped]_vars

\* A scheduled simulation started during a GET /api/simulate call and both
\* are still in simulate_and_log.
C10_Witness ==
    /\ requests > 0
    /\ overlapped
    /\ instances["scheduled_simulation"] = 1

(***************************************************************************)
(* Query properties                                                        *)
(***************************************************************************)
DashboardReturned(c) == c.handler = "dashboard" /\ c.pc = "returned"
StationReturned(c) == c.handler = "station" /\ c.pc = "returned"

SatellitesOf(t) == {t[i].satellite_id : i \in DOMAIN t}

\* The telemetry rows of satellite s that carry its greatest timestamp.
LatestRows(s) ==
    {i \in DOMAIN telemetry :
        /\ telemetry[i].satellite_id = s
        /\ \A k \in DOMAIN telemetry :
              telemetry[k].satellite_id = s => telemetry[k].timestamp <= telemetry[i].timestamp}

\* One latest row for each satellite, any of the tied ones.
LatestChoices ==
    {f \in [SatellitesOf(telemetry) -> DOMAIN telemetry] :
        \A s \in SatellitesOf(telemetry) : f[s] \in LatestRows(s)}

\* C2: lowBattery (resp. errorState) is the number of satellites whose latest
\* telemetry row (on equal greatest timestamps, any one of the tied rows) has
\* battery_level < 30 (resp. status = 'ERROR'); each satellite counts at most
\* once.
C2_LatestPerSatelliteCounts ==
    LET c == call["request"] IN
    DashboardReturned(c) =>
        /\ \E f \in LatestChoices :
              c.response.lowBattery =
                  Cardinality({s \in SatellitesOf(telemetry) :
                                  telemetry[f[s]].battery_level < 30})
        /\ \E f \in LatestChoices :
              c.response.errorState =
                  Cardinality({s \in SatellitesOf(telemetry) :
                                  telemetry[f[s]].status = "ERROR"})

\* C5: activeContacts is the number of distinct satellite ids that have at
\* least one contact window with assigned = true and end_time strictly after
\* the query time; windows that ended at or before it, and unassigned ones,
\* add nothing.
C5_ActiveContactsExact ==
    LET c == call["request"] IN
    DashboardReturned(c) =>
        c.response.activeContacts =
            Cardinality({s \in SatellitesOf(contact_windows) :
                \E i \in DOMAIN contact_windows :
                    /\ contact_windows[i].satellite_id = s
                    /\ contact_windows[i].assigned
                    /\ utc < contact_windows[i].end_time})

\* One satellite has an open assigned window, another an assigned window that
\* ends exactly at the query time, and the summary counts one.
C5_Witness ==
    LET c == call["request"] IN
    /\ DashboardReturned(c)
    /\ c.response.activeContacts = 1
    /\ \E i, k \in DOMAIN contact_windows :
          /\ contact_windows[i].satellite_id # contact_windows[k].satellite_id
          /\ contact_windows[i].assigned /\ contact_windows[i].end_time > utc
          /\ contact_windows[k].assigned /\ contact_windows[k].end_time = utc

\* The satellites with an assigned window with the station that ends after
\* the query time.
InContactWith(station_id) ==
    {contact_windows[i].satellite_id :
        i \in {k \in DOMAIN contact_windows :
                  /\ contact_windows[k].ground_station_id = station_id
                  /\ contact_windows[k].assigned
                  /\ contact_windows[k].end_time > utc}}

\* The telemetry rows of satellite s recorded with the station.
RowsAt(s, station_id) ==
    {i \in DOMAIN telemetry :
        /\ telemetry[i].satellite_id = s
        /\ telemetry[i].ground_station_id = station_id}

\* Those of them that carry the greatest timestamp among them.
LatestRowsAt(s, station_id) ==
    {i \in RowsAt(s, station_id) :
        \A k \in RowsAt(s, station_id) : telemetry[k].timestamp <= telemetry[i].timestamp}

EntryOf(r) ==
    [satellite_id |-> r.satellite_id, battery_level |-> r.battery_level,
     temperature |-> r.temperature, status |-> r.status, timestamp |-> r.timestamp]

EntriesFor(list, s) == {k \in DOMAIN list : list[k].satellite_id = s}

C7_AllOrNothing ==
    \A th \in Threads :
        LET c == call[th] IN
        /\ c.faulted => (c.pc = "raised" /\ c.response = NoResponse)
        /\ c.pc # "returned" => c.response = NoResponse
        /\ DashboardReturned(c) =>
              /\ ~c.faulted
              /\ c.response =
                    [totalSatellites |-> 100,
                     activeContacts |-> ActiveContactsNow(contact_windows, utc),
                     lowBattery |-> LowBatteryLatest(telemetry),
                     errorState |-> ErrorLatest(telemetry),
                     totalTelemetry |-> CountTelemetry(telemetry)]
        /\ StationReturned(c) =>
              /\ ~c.faulted
              /\ \E d \in StationLatest(contact_windows, telemetry, utc, c.station_id) :
                    c.response = [station_id |-> c.station_id, satellites |-> d]

\* A summary call failed at a later query, after earlier queries had bound
\* their locals, and it carries no response.
C7_Witness ==
    \E th \in Threads :
        /\ call[th].handler = "dashboard"
        /\ call[th].pc = "raised"
        /\ "low_battery" \in DOMAIN call[th].locals
        /\ call[th].response = NoResponse
        /\ telemetry # <<>>

\* C8: a get_station_data call for a station that no contact window names
\* raises only if the store failed, and when it returns it returns
\* {station_id: the given id, satellites: []}.
C8_UnknownStationEmpty ==
    \A th \in Threads :
        LET c == call[th] IN
        (/\ c.handler = "station"
         /\ \A i \in DOMAIN contact_windows :
               contact_windows[i].ground_station_id # c.station_id)
        => /\ c.pc = "raised" => c.faulted
           /\ c.pc = "returned" =>
                 c.response = [station_id |-> c.station_id, satellites |-> <<>>]

\* A call for "does-not-exist" returned while the store holds contact windows.
C8_Witness ==
    \E th \in Threads :
        /\ StationReturned(call[th])
        /\ call[th].station_id = "does-not-exist"
        /\ contact_windows # <<>>
        /\ call[th].response.satellites = <<>>

\* C9: a finished call, returned or raised, holds no open connection, and the
\* store holds open only the connections of calls still in progress.
C9_ConnectionReleased ==
    /\ \A th \in Threads : Finished(call[th]) => call[th].conn # "open"
    /\ open = Cardinality({th \in Threads :
                              call[th].conn = "open" /\ ~Finished(call[th])})

====
